---- MODULE Spec2Model ----
(***************************************************************************)
(* EIP-7702Test: the AuthorizationERC20Delegation token (EIP-3009 style    *)
(* transferWithAuthorization / cancelAuthorization on top of a minimal     *)
(* ERC-20) and the scripts that build, sign and submit type 0x04           *)
(* delegated transactions.                                                 *)
(***************************************************************************)
EXTENDS Integers, Sequences, FiniteSets, TLC

VARIABLES
    balanceOf,            \* mapping(address => uint256)
    allowance,            \* mapping(address => mapping(address => uint256))
    authorizationState,   \* mapping(bytes32 => AuthorizationState), key = _authKey(authorizer, nonce)
    totalSupply,          \* uint256
    blockTimestamp,       \* block.timestamp of the block the next call is mined in
    script,               \* which script runs: its main() is the process below
    pc,                   \* where main() stands
    accountNonce,         \* the chain: transaction count of each account
    delegatedCode,        \* the chain: delegate installed for each account by an authorization
    nonceRead,            \* getTransactionCount results: tokenHolderNonce / gasPayerNonce / currentNonce
    authorizationData,    \* chainId, address, nonce, yParity, r, s (hex strings)
    authorizationSignature,
    txData,               \* the ten items handed to encodeRlp before signing
    txSignature,
    signedTx,             \* the raw transaction handed to eth_sendRawTransaction
    receipt,              \* what the network did with the transaction
    message,              \* the typed TransferWithAuthorization message a script builds
    signature             \* wallet.signTypedData(domain, types, message)

tokenVars == <<balanceOf, allowance, authorizationState, totalSupply, blockTimestamp>>
typedVars == <<message, signature>>
scriptVars == <<script, pc, accountNonce, delegatedCode, nonceRead, authorizationData,
                authorizationSignature, txData, txSignature, signedTx, receipt, typedVars>>

----------------------------------------------------------------------------
(* Bounds of the model *)

MaxTime == 2          \* block.timestamp ranges over 1 .. MaxTime
MaxValue == 2         \* amounts range over 0 .. MaxValue; the constructor mints MaxValue
WordBits == 8         \* width of the model's uint256 (arithmetic is modulo 2^WordBits)
MaxNonce == 2         \* account nonces range over 0 .. MaxNonce

----------------------------------------------------------------------------
(* Addresses, keys, nonces *)

ZERO == "0x0"                 \* address(0): nobody holds its key
Holders == {"A", "B"}         \* externally owned accounts whose private key exists
Address == {ZERO} \cup Holders
Unrelated == "0x?"            \* the address a well-formed signature over another digest recovers to
Deployer == "A"               \* msg.sender of the constructor
Nonces == {"n1", "n2"}        \* bytes32 authorization nonces
InitialSupply == MaxValue     \* _initialSupply handed to the constructor (scaled down)

UINT_MAX == (2 ^ WordBits) - 1
Uint(n) == n % (2 ^ WordBits)

AuthorizationState == {"Unused", "Used", "Canceled"}

----------------------------------------------------------------------------
(* EIP-712 digests and signatures. keccak256 and abi.encode are injective   *)
(* for the fixed-width fields hashed here, so a digest is modelled as the   *)
(* tuple of what is hashed.                                                *)

DOMAIN_SEPARATOR == <<"EIP712Domain", "AuthDelegationToken", "1", "chainId", "address(this)">>
TRANSFER_WITH_AUTHORIZATION_TYPEHASH == "TransferWithAuthorization"
CANCEL_AUTHORIZATION_TYPEHASH == "CancelAuthorization"

_toTypedMessageHash(structHash) == <<"0x1901", DOMAIN_SEPARATOR, structHash>>

TransferStructHash(from, to, value, validAfter, validBefore, nonce) ==
    <<TRANSFER_WITH_AUTHORIZATION_TYPEHASH, from, to, value, validAfter, validBefore, nonce>>

CancelStructHash(authorizer, nonce) ==
    <<CANCEL_AUTHORIZATION_TYPEHASH, authorizer, nonce>>

\* The key derived from the nonce alone: every authorizer shares a record.
Mut_authKey_AuthorizerDropped(authorizer, nonce) == <<ZERO, nonce>>

\* The key derived from the authorizer alone: all its nonces share a record.
Mut_authKey_NonceDropped(authorizer, nonce) == <<authorizer, "n1">>

_authKey(authorizer, nonce) == <<authorizer, nonce>>

\* A signature (v, r, s) is either malformed (no point recovers from it) or
\* was produced by the key of `signer` over `digest`.
Malformed == [signer |-> "none", digest |-> <<>>]
Sign(signer, digest) == [signer |-> signer, digest |-> digest]

\* The precompile returns address(0) when nothing recovers, the signer when
\* the digest is the signed one, and some unrelated address otherwise.
ecrecover(digest, sig) ==
    IF sig = Malformed THEN ZERO
    ELSE IF sig.digest = digest THEN sig.signer
    ELSE Unrelated

----------------------------------------------------------------------------
(* Contract storage and the result of a call. A require() that fails        *)
(* reverts the whole call: the storage is the one before the call.         *)

Storage == [balanceOf |-> balanceOf, allowance |-> allowance,
            authorizationState |-> authorizationState, totalSupply |-> totalSupply]

Ok(st, events) == [err |-> "OK", st |-> st, events |-> events]
Revert(st, reason) == [err |-> reason, st |-> st, events |-> <<>>]

_mint(st, to, value) ==
    Ok([st EXCEPT !.totalSupply = Uint(@ + value),
                  !.balanceOf = [@ EXCEPT ![to] = Uint(@ + value)]],
       <<<<"Transfer", ZERO, to, value>>>>)

\* _transfer computing both new balances from the balances before the call.
Mut_transfer_CachedBalances(st, from, to, value) ==
    IF ~(st.balanceOf[from] >= value) THEN Revert(st, "BALANCE")
    ELSE LET b1 == [st.balanceOf EXCEPT ![from] = Uint(@ - value)]
             b2 == [b1 EXCEPT ![to] = Uint(st.balanceOf[to] + value)]
         IN Ok([st EXCEPT !.balanceOf = b2], <<<<"Transfer", from, to, value>>>>)

_transfer(st, from, to, value) ==
    IF ~(st.balanceOf[from] >= value) THEN Revert(st, "BALANCE")
    ELSE LET b1 == [st.balanceOf EXCEPT ![from] = Uint(@ - value)]
             b2 == [b1 EXCEPT ![to] = Uint(@ + value)]
         IN Ok([st EXCEPT !.balanceOf = b2], <<<<"Transfer", from, to, value>>>>)

transfer(st, sender, to, value) ==
    LET t == _transfer(st, sender, to, value)
    IN IF t.err # "OK" THEN Revert(st, t.err) ELSE t

approve(st, sender, spender, value) ==
    Ok([st EXCEPT !.allowance = [@ EXCEPT ![sender][spender] = value]],
       <<<<"Approval", sender, spender, value>>>>)

transferFrom(st, sender, from, to, value) ==
    LET allowed == st.allowance[from][sender]
    IN IF ~(allowed >= value) THEN Revert(st, "ALLOWANCE")
       ELSE LET s1 == IF allowed # UINT_MAX
                      THEN [st EXCEPT !.allowance = [@ EXCEPT ![from][sender] = allowed - value]]
                      ELSE st
                t == _transfer(s1, from, to, value)
            IN IF t.err # "OK" THEN Revert(st, t.err) ELSE t

\* _validateAndUse with the window closed at its upper end (<= for <).
Mut_validateAndUse_ClosedEnd(st, now, authorizer, validAfter, validBefore, nonce, structHash, sig) ==
    IF ~(now > validAfter) THEN Revert(st, "TIME_NOT_YET")
    ELSE IF ~(now <= validBefore) THEN Revert(st, "TIME_EXPIRED")
    ELSE LET digest == _toTypedMessageHash(structHash)
             recovered == ecrecover(digest, sig)
             key == _authKey(authorizer, nonce)
         IN IF ~(recovered = authorizer) THEN Revert(st, "SIG")
            ELSE IF ~(st.authorizationState[key] = "Unused") THEN Revert(st, "USED_OR_CANCELLED")
            ELSE Ok([st EXCEPT !.authorizationState = [@ EXCEPT ![key] = "Used"]],
                    <<<<"AuthorizationUsed", authorizer, nonce>>>>)

\* _validateAndUse checking the record before the signature.
Mut_validateAndUse_StateFirst(st, now, authorizer, validAfter, validBefore, nonce, structHash, sig) ==
    IF ~(now > validAfter) THEN Revert(st, "TIME_NOT_YET")
    ELSE IF ~(now < validBefore) THEN Revert(st, "TIME_EXPIRED")
    ELSE LET digest == _toTypedMessageHash(structHash)
             recovered == ecrecover(digest, sig)
             key == _authKey(authorizer, nonce)
         IN IF ~(st.authorizationState[key] = "Unused") THEN Revert(st, "USED_OR_CANCELLED")
            ELSE IF ~(recovered = authorizer) THEN Revert(st, "SIG")
            ELSE Ok([st EXCEPT !.authorizationState = [@ EXCEPT ![key] = "Used"]],
                    <<<<"AuthorizationUsed", authorizer, nonce>>>>)

\* _validateAndUse without the check that the record is Unused.
Mut_validateAndUse_NoStateCheck(st, now, authorizer, validAfter, validBefore, nonce, structHash, sig) ==
    IF ~(now > validAfter) THEN Revert(st, "TIME_NOT_YET")
    ELSE IF ~(now < validBefore) THEN Revert(st, "TIME_EXPIRED")
    ELSE LET digest == _toTypedMessageHash(structHash)
             recovered == ecrecover(digest, sig)
             key == _authKey(authorizer, nonce)
         IN IF ~(recovered = authorizer) THEN Revert(st, "SIG")
            ELSE Ok([st EXCEPT !.authorizationState = [@ EXCEPT ![key] = "Used"]],
                    <<<<"AuthorizationUsed", authorizer, nonce>>>>)

_validateAndUse(st, now, authorizer, validAfter, validBefore, nonce, structHash, sig) ==
    IF ~(now > validAfter) THEN Revert(st, "TIME_NOT_YET")
    ELSE IF ~(now < validBefore) THEN Revert(st, "TIME_EXPIRED")
    ELSE LET digest == _toTypedMessageHash(structHash)
             recovered == ecrecover(digest, sig)
             key == _authKey(authorizer, nonce)
         IN IF ~(recovered = authorizer) THEN Revert(st, "SIG")
            ELSE IF ~(st.authorizationState[key] = "Unused") THEN Revert(st, "USED_OR_CANCELLED")
            ELSE Ok([st EXCEPT !.authorizationState = [@ EXCEPT ![key] = "Used"]],
                    <<<<"AuthorizationUsed", authorizer, nonce>>>>)

\* transferWithAuthorization whose failed _transfer does not undo the write
\* of _validateAndUse (the failure returned instead of reverting).
Mut_transferWithAuthorization_NoRollback(st, now, from, to, value, validAfter, validBefore, nonce, sig) ==
    LET u == _validateAndUse(st, now, from, validAfter, validBefore, nonce,
                             TransferStructHash(from, to, value, validAfter, validBefore, nonce), sig)
    IN IF u.err # "OK" THEN Revert(st, u.err)
       ELSE LET t == _transfer(u.st, from, to, value)
            IN IF t.err # "OK" THEN Revert(u.st, t.err)
               ELSE Ok(t.st, u.events \o t.events)

transferWithAuthorization(st, now, from, to, value, validAfter, validBefore, nonce, sig) ==
    LET u == _validateAndUse(st, now, from, validAfter, validBefore, nonce,
                             TransferStructHash(from, to, value, validAfter, validBefore, nonce), sig)
    IN IF u.err # "OK" THEN Revert(st, u.err)
       ELSE LET t == _transfer(u.st, from, to, value)
            IN IF t.err # "OK" THEN Revert(st, t.err)
               ELSE Ok(t.st, u.events \o t.events)

\* cancelAuthorization with a deadline: it fails in the last block time.
Mut_cancelAuthorization_Deadline(st, authorizer, nonce, sig) ==
    LET structHash == CancelStructHash(authorizer, nonce)
        digest == _toTypedMessageHash(structHash)
        recovered == ecrecover(digest, sig)
        key == _authKey(authorizer, nonce)
        state == st.authorizationState[key]
    IN IF ~(blockTimestamp < MaxTime) THEN Revert(st, "TIME_EXPIRED")
       ELSE IF ~(recovered = authorizer) THEN Revert(st, "SIG")
       ELSE IF ~(state = "Unused") THEN Revert(st, "STATE")
       ELSE Ok([st EXCEPT !.authorizationState = [@ EXCEPT ![key] = "Canceled"]],
               <<<<"AuthorizationCanceled", authorizer, nonce>>>>)

\* cancelAuthorization without the check that the record is Unused.
Mut_cancelAuthorization_NoStateCheck(st, authorizer, nonce, sig) ==
    LET structHash == CancelStructHash(authorizer, nonce)
        digest == _toTypedMessageHash(structHash)
        recovered == ecrecover(digest, sig)
        key == _authKey(authorizer, nonce)
    IN IF ~(recovered = authorizer) THEN Revert(st, "SIG")
       ELSE Ok([st EXCEPT !.authorizationState = [@ EXCEPT ![key] = "Canceled"]],
               <<<<"AuthorizationCanceled", authorizer, nonce>>>>)

cancelAuthorization(st, authorizer, nonce, sig) ==
    LET structHash == CancelStructHash(authorizer, nonce)
        digest == _toTypedMessageHash(structHash)
        recovered == ecrecover(digest, sig)
        key == _authKey(authorizer, nonce)
        state == st.authorizationState[key]
    IN IF ~(recovered = authorizer) THEN Revert(st, "SIG")
       ELSE IF ~(state = "Unused") THEN Revert(st, "STATE")
       ELSE Ok([st EXCEPT !.authorizationState = [@ EXCEPT ![key] = "Canceled"]],
               <<<<"AuthorizationCanceled", authorizer, nonce>>>>)

----------------------------------------------------------------------------
(* Byte strings, ethers.toBeHex and ethers.encodeRlp. A hex string is the    *)
(* sequence of its bytes ('0x' is the empty sequence); an RLP item is a     *)
(* byte string or a list of items.                                          *)

Bytes(b) == [t |-> "bytes", v |-> b]
List(l) == [t |-> "list", v |-> l]

RECURSIVE BigEndian(_)
BigEndian(n) == IF n < 256 THEN <<n>> ELSE BigEndian(n \div 256) \o <<n % 256>>

\* ethers.toBeHex(n): the big-endian bytes of n, padded to whole bytes;
\* toBeHex(0) is '0x00'.
toBeHex(n) == BigEndian(n)

RECURSIVE encodeRlp(_)
RECURSIVE encodeRlpAll(_)
encodeRlpAll(items) ==
    IF items = <<>> THEN <<>> ELSE encodeRlp(Head(items)) \o encodeRlpAll(Tail(items))

encodeRlp(item) ==
    IF item.t = "bytes"
    THEN LET b == item.v
         IN IF Len(b) = 1 /\ b[1] <= 127 THEN b
            ELSE IF Len(b) <= 55 THEN <<128 + Len(b)>> \o b
            ELSE <<183 + Len(BigEndian(Len(b)))>> \o BigEndian(Len(b)) \o b
    ELSE LET payload == encodeRlpAll(item.v)
         IN IF Len(payload) <= 55 THEN <<192 + Len(payload)>> \o payload
            ELSE <<247 + Len(BigEndian(Len(payload)))>> \o BigEndian(Len(payload)) \o payload

----------------------------------------------------------------------------
(* The token as a state machine: one action per external function, called   *)
(* while no script runs. Inputs are drawn from small sets; validAfter and   *)
(* validBefore are taken around the current block time so that both ends of *)
(* the window are exercised.                                                *)

Values == 0 .. MaxValue
ApproveValues == {0, MaxValue, UINT_MAX}
Around(t) == {t - 1, t, t + 1}

\* The (authorizer, nonce) pairs the calls of the model name.
AuthKeys == {<<ZERO, "n1">>, <<"A", "n1">>, <<"A", "n2">>}

\* Whose key signs when `authorizer` is claimed: its own if it has one.
KeyOf(authorizer) == IF authorizer \in Holders THEN authorizer ELSE Deployer

TransferDigest(m) ==
    _toTypedMessageHash(TransferStructHash(m.from, m.to, m.value, m.validAfter, m.validBefore, m.nonce))

CancelDigest(authorizer, nonce) == _toTypedMessageHash(CancelStructHash(authorizer, nonce))

\* The signatures submitted with a message: a malformed one, one by each
\* existing key over `digest`, and one by the authorizer's key over each of
\* the digests `others` (a signed message that is not the submitted one).
Signatures(authorizer, digest, others) ==
    {Malformed} \cup {Sign(k, digest) : k \in Holders}
                \cup {Sign(KeyOf(authorizer), d) : d \in others}

\* The same authorization made out to another recipient.
Redirected(m) == [m EXCEPT !.to = IF m.to = "B" THEN "A" ELSE "B"]

\* The signatures submitted with the transfer authorization m, and with the
\* cancellation of (authorizer, nonce).
TransferSignatures(m) ==
    Signatures(m.from, TransferDigest(m),
               {TransferDigest(Redirected(m)), CancelDigest(m.from, m.nonce)})

CancelSignatures(authorizer, nonce) ==
    Signatures(authorizer, CancelDigest(authorizer, nonce),
               {TransferDigest([from |-> authorizer, nonce |-> nonce, to |-> "B", value |-> 0,
                                validAfter |-> 0, validBefore |-> MaxTime + 1])})

\* P holds of every input of transferWithAuthorization at block time `now`
\* (AnyTransferInput: of some input), and likewise for cancelAuthorization.
EveryTransferInput(now, P(_)) ==
    \A k \in AuthKeys, to \in Holders, value \in Values,
       validAfter \in Around(now), validBefore \in Around(now) :
        LET m == [from |-> k[1], nonce |-> k[2], to |-> to, value |-> value,
                  validAfter |-> validAfter, validBefore |-> validBefore]
        IN \A g \in TransferSignatures(m) : P([msg |-> m, sig |-> g])

AnyTransferInput(now, P(_)) ==
    \E k \in AuthKeys, to \in Holders, value \in Values,
       validAfter \in Around(now), validBefore \in Around(now) :
        LET m == [from |-> k[1], nonce |-> k[2], to |-> to, value |-> value,
                  validAfter |-> validAfter, validBefore |-> validBefore]
        IN \E g \in TransferSignatures(m) : P([msg |-> m, sig |-> g])

EveryCancelInput(P(_)) ==
    \A k \in AuthKeys : \A g \in CancelSignatures(k[1], k[2]) :
        P([authorizer |-> k[1], nonce |-> k[2], sig |-> g])

AnyCancelInput(P(_)) ==
    \E k \in AuthKeys : \E g \in CancelSignatures(k[1], k[2]) :
        P([authorizer |-> k[1], nonce |-> k[2], sig |-> g])

\* What a call returns on the current storage at the current block time.
TWA(i) ==
    transferWithAuthorization(Storage, blockTimestamp, i.msg.from, i.msg.to, i.msg.value,
                              i.msg.validAfter, i.msg.validBefore, i.msg.nonce, i.sig)

Cancel(i) == cancelAuthorization(Storage, i.authorizer, i.nonce, i.sig)

\* The storage after a call: the call's writes, or nothing after a revert.
Commit(res) ==
    /\ balanceOf' = res.st.balanceOf
    /\ allowance' = res.st.allowance
    /\ authorizationState' = res.st.authorizationState
    /\ totalSupply' = res.st.totalSupply
    /\ UNCHANGED <<blockTimestamp, scriptVars>>

EmptyStorage ==
    [balanceOf |-> [a \in Address |-> 0],
     allowance |-> [a \in Address |-> [b \in Address |-> 0]],
     authorizationState |-> [k \in Address \X Nonces |-> "Unused"],
     totalSupply |-> 0]

TokenInit ==
    LET c == _mint(EmptyStorage, Deployer, InitialSupply)
    IN /\ balanceOf = c.st.balanceOf
       /\ allowance = c.st.allowance
       /\ authorizationState = c.st.authorizationState
       /\ totalSupply = c.st.totalSupply
       /\ blockTimestamp = 1

Transfer ==
    \E sender \in Holders, to \in Address, value \in Values :
        /\ pc = "idle"
        /\ Commit(transfer(Storage, sender, to, value))

\* The deployer approves the other holder.
Approve ==
    \E spender \in Holders \ {Deployer}, value \in ApproveValues :
        /\ pc = "idle"
        /\ Commit(approve(Storage, Deployer, spender, value))

TransferFrom ==
    \E sender \in Holders, from \in Holders, to \in Address, value \in Values :
        /\ pc = "idle"
        /\ Commit(transferFrom(Storage, sender, from, to, value))

TransferWithAuthorization ==
    /\ pc = "idle"
    /\ AnyTransferInput(blockTimestamp, LAMBDA i : Commit(TWA(i)))

CancelAuthorization ==
    /\ pc = "idle"
    /\ AnyCancelInput(LAMBDA i : Commit(Cancel(i)))

\* A later block: block.timestamp only grows.
Tick ==
    /\ pc = "idle"
    /\ blockTimestamp < MaxTime
    /\ blockTimestamp' = blockTimestamp + 1
    /\ UNCHANGED <<balanceOf, allowance, authorizationState, totalSupply, scriptVars>>

----------------------------------------------------------------------------
(* The scripts that build a type 0x04 transaction. main() of each script is  *)
(* a process: it reads the nonces, signs the authorization, builds and       *)
(* signs the transaction and sends it; the network then processes it.        *)

Sponsored == "executeERC20Transfer"    \* eip7702-example-1/scripts/executeERC20Transfer.js
SelfTransfer == "part_000"             \* self-sponsored ERC-20 transfer
SelfAuthorized == "part_001"           \* self-sponsored transferWithAuthorization
EndToEnd == "executeTransferWithAuthorization"   \* calls the token directly, no delegation
Delegating == {Sponsored, SelfTransfer, SelfAuthorized}
Scripts == Delegating \cup {EndToEnd}

\* The account that signs the authorization and the one that signs and pays.
Authorizer(sc) == IF sc = Sponsored THEN "tokenHolder" ELSE "wallet"
Sender(sc) == IF sc = Sponsored THEN "gasPayer" ELSE "wallet"
Accounts(sc) == {Authorizer(sc), Sender(sc)}

\* 20-byte addresses and 32-byte signature halves, as byte strings.
AddressBytes(a) ==
    [i \in 1 .. 20 |-> CASE a = "tokenHolder" -> 17 [] a = "gasPayer" -> 34
                         [] a = "wallet" -> 51 [] OTHER -> 221]
BATCH_CALL_DELEGATION_ADDRESS == AddressBytes("BatchCallDelegation")

\* batchInterface.encodeFunctionData('execute', [calls]): opaque to the
\* transaction builder, which carries it as it is.
calldata(sc) == [i \in 1 .. 36 |-> IF sc = SelfAuthorized THEN 226 ELSE 169]

keccak256(bytes) == <<"keccak256", bytes>>

\* signingKey.sign(hash): the parity is whatever the curve point gives.
sign(key, hash, yParity) == [signer |-> key, digest |-> hash, yParity |-> yParity]
sigR(sig) == [i \in 1 .. 32 |-> IF sig.signer = "gasPayer" THEN 161 ELSE 162]
sigS(sig) == [i \in 1 .. 32 |-> IF sig.signer = "gasPayer" THEN 177 ELSE 178]

\* sig.yParity === 0 ? '0x' : '0x01'
yParityHex(sig) == IF sig.yParity = 0 THEN <<>> ELSE <<1>>

\* Every script signing the nonce it read for the authorizer.
Mut_AuthorizationNonce_AsRead(sc, read) == read.authorizer

\* The account nonce each script signs into its authorization.
AuthorizationNonce(sc, read) ==
    IF sc = Sponsored THEN read.authorizer ELSE read.sender + 1

gasLimit(sc) ==
    toBeHex(CASE sc = Sponsored -> 300000 [] sc = SelfTransfer -> 10000000 [] OTHER -> 1500000)

\* 0x05 || rlp([chainId, address, nonce])
encodedAuthorizationData(auth) ==
    <<5>> \o encodeRlp(List(<<Bytes(auth.chainId), Bytes(auth.address), Bytes(auth.nonce)>>))

\* maxPriorityFeePerGas === '0x00' ? '0x' : maxPriorityFeePerGas
maxPriorityFeePerGas(feeData) ==
    LET hex == toBeHex(feeData.maxPriorityFeePerGas)
    IN IF hex = <<0>> THEN <<>> ELSE hex

\* The authorization list: one entry of six items.
AuthorizationList(auth) ==
    List(<<List(<<Bytes(auth.chainId), Bytes(auth.address), Bytes(auth.nonce),
                  Bytes(auth.yParity), Bytes(auth.r), Bytes(auth.s)>>)>>)

\* txData with `to` set to the account that sends the transaction.
Mut_BuildTxData_ToSender(sc, chainId, read, feeData, auth) ==
    << Bytes(toBeHex(chainId)),
       Bytes(toBeHex(read.sender)),
       Bytes(maxPriorityFeePerGas(feeData)),
       Bytes(toBeHex(feeData.maxFeePerGas)),
       Bytes(gasLimit(sc)),
       Bytes(AddressBytes(Sender(sc))),
       Bytes(<<>>),
       Bytes(calldata(sc)),
       List(<<>>),
       AuthorizationList(auth) >>

BuildTxData(sc, chainId, read, feeData, auth) ==
    << Bytes(toBeHex(chainId)),
       Bytes(toBeHex(read.sender)),
       Bytes(maxPriorityFeePerGas(feeData)),
       Bytes(toBeHex(feeData.maxFeePerGas)),
       Bytes(gasLimit(sc)),
       Bytes(AddressBytes(Authorizer(sc))),
       Bytes(<<>>),
       Bytes(calldata(sc)),
       List(<<>>),
       AuthorizationList(auth) >>

\* 0x04 || rlp(txData)
encodedTxData(items) == <<4>> \o encodeRlp(List(items))

\* The signature appended as r, s, yParity.
Mut_SignedItems_ParityLast(items, sig) ==
    items \o <<Bytes(sigR(sig)), Bytes(sigS(sig)), Bytes(yParityHex(sig))>>

\* [...txData, yParity, r, s]
SignedItems(items, sig) == items \o <<Bytes(yParityHex(sig)), Bytes(sigR(sig)), Bytes(sigS(sig))>>

None == [none |-> TRUE]
ChainIds == {1}
FeeData == [maxPriorityFeePerGas : {0, 1}, maxFeePerGas : {2, 300}]
TheChainId == CHOOSE c \in ChainIds : TRUE

ScriptsIdle ==
    /\ script = "none"
    /\ pc = "idle"
    /\ accountNonce = None
    /\ delegatedCode = None
    /\ nonceRead = None
    /\ authorizationData = None
    /\ authorizationSignature = None
    /\ txData = <<>>
    /\ txSignature = None
    /\ signedTx = None
    /\ receipt = None
    /\ message = None
    /\ signature = None

\* RECIPIENT_ADDRESS, and the accounts the token of the scripts knows.
Recipient == "X"
ScriptAddresses == {"tokenHolder", "gasPayer", "wallet", "X", "Y"}

\* transferAmount of the scripts that batch an ERC-20 transfer, value of the
\* scripts that sign a typed authorization, in whole tokens.
Amount(sc) ==
    CASE sc = EndToEnd -> 25 [] sc = SelfAuthorized -> 10 [] OTHER -> 1

\* A window that opens a minute after now instead of a minute before.
Mut_ValidFor_OpensLater(sc) ==
    IF sc = EndToEnd THEN [after |-> -60, before |-> 3600] ELSE [after |-> -30, before |-> 1800]

\* now - validAfter and validBefore - now of the typed authorization.
ValidFor(sc) ==
    IF sc = EndToEnd THEN [after |-> 60, before |-> 3600] ELSE [after |-> 30, before |-> 1800]

\* Date.now() when main() starts, and the times of the later blocks.
StartTime == 100
BlockTimes == {StartTime, StartTime + 1, StartTime + 1800, StartTime + 3600}

\* What the authorizer holds when the script starts.
HolderBalances == {0, 5, 100}

ScriptsInit ==
    /\ script \in Scripts
    /\ pc = "start"
    /\ accountNonce \in [Accounts(script) -> 0 .. 1]
    /\ delegatedCode = [a \in Accounts(script) |-> <<>>]
    /\ nonceRead = None
    /\ authorizationData = None
    /\ authorizationSignature = None
    /\ txData = <<>>
    /\ txSignature = None
    /\ signedTx = None
    /\ receipt = None
    /\ message = None
    /\ signature = None

\* The deployed token as the scripts find it: the authorizer holds the
\* supply, every record is Unused.
ScriptsToken ==
    /\ \E supply \in HolderBalances :
          /\ balanceOf = [a \in ScriptAddresses |-> IF a = Authorizer(script) THEN supply ELSE 0]
          /\ totalSupply = supply
    /\ allowance = [a \in ScriptAddresses |-> [b \in ScriptAddresses |-> 0]]
    /\ authorizationState = [k \in ScriptAddresses \X Nonces |-> "Unused"]
    /\ blockTimestamp = StartTime

\* message and wallet.signTypedData(domain, types, message)
SignTypedData ==
    /\ pc = "start"
    /\ script \in {SelfAuthorized, EndToEnd}
    /\ \E nonce \in Nonces :
          LET m == [from |-> "wallet", to |-> Recipient, value |-> Amount(script),
                    validAfter |-> blockTimestamp - ValidFor(script).after,
                    validBefore |-> blockTimestamp + ValidFor(script).before,
                    nonce |-> nonce]
          IN /\ message' = m
             /\ signature' = Sign("wallet", TransferDigest(m))
    /\ pc' = "typed"
    /\ UNCHANGED <<tokenVars, script, accountNonce, delegatedCode, nonceRead, authorizationData,
                   authorizationSignature, txData, txSignature, signedTx, receipt>>

\* getTransactionCount of the authorizer and of the sender
FetchNonces ==
    /\ script \in Delegating
    /\ pc = (IF script = SelfAuthorized THEN "typed" ELSE "start")
    /\ nonceRead' = [authorizer |-> accountNonce[Authorizer(script)],
                     sender |-> accountNonce[Sender(script)]]
    /\ pc' = "fetched"
    /\ UNCHANGED <<tokenVars, typedVars, script, accountNonce, delegatedCode, authorizationData,
                   authorizationSignature, txData, txSignature, signedTx, receipt>>

SignAuthorization ==
    /\ pc = "fetched"
    /\ \E yParity \in {0, 1} :
          LET data == [chainId |-> toBeHex(TheChainId),
                       address |-> BATCH_CALL_DELEGATION_ADDRESS,
                       nonce |-> toBeHex(AuthorizationNonce(script, nonceRead))]
              sig == sign(Authorizer(script), keccak256(encodedAuthorizationData(data)), yParity)
          IN /\ authorizationSignature' = sig
             /\ authorizationData' = [chainId |-> data.chainId, address |-> data.address,
                                      nonce |-> data.nonce, yParity |-> yParityHex(sig),
                                      r |-> sigR(sig), s |-> sigS(sig)]
    /\ pc' = "authorized"
    /\ UNCHANGED <<tokenVars, typedVars, script, accountNonce, delegatedCode, nonceRead, txData, txSignature,
                   signedTx, receipt>>

BuildTransaction ==
    /\ pc = "authorized"
    /\ \E feeData \in FeeData :
          txData' = BuildTxData(script, TheChainId, nonceRead, feeData, authorizationData)
    /\ pc' = "built"
    /\ UNCHANGED <<tokenVars, typedVars, script, accountNonce, delegatedCode, nonceRead, authorizationData,
                   authorizationSignature, txSignature, signedTx, receipt>>

SignTransaction ==
    /\ pc = "built"
    /\ \E yParity \in {0, 1} :
          LET sig == sign(Sender(script), keccak256(encodedTxData(txData)), yParity)
              items == SignedItems(txData, sig)
          IN /\ txSignature' = sig
             /\ signedTx' = [items |-> items, raw |-> <<4>> \o encodeRlp(List(items))]
    /\ pc' = "signed"
    /\ UNCHANGED <<tokenVars, typedVars, script, accountNonce, delegatedCode, nonceRead, authorizationData,
                   authorizationSignature, txData, receipt>>

----------------------------------------------------------------------------
(* The network. A node decodes the raw transaction, so an integer item with  *)
(* a leading zero byte is refused; a transaction is included when its nonce  *)
(* is the sender's; the sender's nonce is incremented, then the              *)
(* authorization list is processed: an entry binds when its nonce is the     *)
(* authority's account nonce at that moment.                                 *)

RECURSIVE FromBytes(_)
FromBytes(b) == IF b = <<>> THEN 0 ELSE FromBytes(SubSeq(b, 1, Len(b) - 1)) * 256 + b[Len(b)]

CanonicalInteger(item) == item.t = "bytes" /\ (item.v = <<>> \/ item.v[1] # 0)

\* The positions of the integer items of a transaction and of an entry.
Decodable(items) ==
    /\ \A n \in {1, 2, 3, 4, 5, 7, 11, 12, 13} : CanonicalInteger(items[n])
    /\ \A n \in {1, 3, 4, 5, 6} : CanonicalInteger(items[10].v[1].v[n])

\* if (balance < transferAmount) throw, before the transaction is sent
CheckBalance ==
    /\ pc = "signed"
    /\ script \in {Sponsored, SelfTransfer}
    /\ pc' = IF balanceOf[Authorizer(script)] < Amount(script) THEN "exit1" ELSE "checked"
    /\ UNCHANGED <<tokenVars, typedVars, script, accountNonce, delegatedCode, nonceRead,
                   authorizationData, authorizationSignature, txData, txSignature, signedTx,
                   receipt>>

\* eth_sendRawTransaction
SendRawTransaction ==
    /\ pc = (IF script = SelfAuthorized THEN "signed" ELSE "checked")
    /\ script \in Delegating
    /\ pc' = IF Decodable(signedTx.items) THEN "sent" ELSE "rejected"
    /\ UNCHANGED <<tokenVars, typedVars, script, accountNonce, delegatedCode, nonceRead, authorizationData,
                   authorizationSignature, txData, txSignature, signedTx, receipt>>

\* Who signed the transaction and the entry, recovered from what was sent.
RecoveredSender ==
    IF txSignature.digest = keccak256(<<4>> \o encodeRlp(List(SubSeq(signedTx.items, 1, 10))))
    THEN txSignature.signer ELSE Unrelated

RecoveredAuthority ==
    LET e == signedTx.items[10].v[1].v
    IN IF authorizationSignature.digest = keccak256(<<5>> \o encodeRlp(List(SubSeq(e, 1, 3))))
       THEN authorizationSignature.signer ELSE Unrelated

\* The batch each delegating script encodes into calldata: one call to the
\* token, transfer(recipient, transferAmount) or transferWithAuthorization
\* with the typed message and its signature.
calls(sc) ==
    IF sc = SelfAuthorized
    THEN <<[fn |-> "transferWithAuthorization", msg |-> message, sig |-> signature]>>
    ELSE <<[fn |-> "transfer", to |-> Recipient, value |-> Amount(sc)]>>

\* One call of a batch, made by the account whose code runs.
RunCall(st, sender, now, c) ==
    IF c.fn = "transfer" THEN transfer(st, sender, c.to, c.value)
    ELSE transferWithAuthorization(st, now, c.msg.from, c.msg.to, c.msg.value,
                                   c.msg.validAfter, c.msg.validBefore, c.msg.nonce, c.sig)

RECURSIVE RunCalls(_, _, _, _)
RunCalls(st, sender, now, batch) ==
    IF batch = <<>> THEN Ok(st, <<>>)
    ELSE LET r == RunCall(st, sender, now, Head(batch))
         IN IF r.err # "OK" THEN r
            ELSE LET rest == RunCalls(r.st, sender, now, Tail(batch))
                 IN IF rest.err # "OK" THEN rest ELSE Ok(rest.st, r.events \o rest.events)

\* BatchCallDelegation.execute(calls): the calls in their order, each with
\* the executing account as msg.sender; all of them or none.
execute(st, sender, now, batch) ==
    LET r == RunCalls(st, sender, now, batch)
    IN IF r.err # "OK" THEN Revert(st, r.err) ELSE r

\* The account a 20-byte `to` names.
AccountAt(bytes) == CHOOSE a \in {"tokenHolder", "gasPayer", "wallet"} : AddressBytes(a) = bytes

\* The transaction is included: the sender's nonce is incremented, the
\* authorization list is processed, then `to` is called with the calldata,
\* which runs the delegate's code when `to` has one.
Mine ==
    /\ pc \in {"sent", "waiting"}
    /\ LET sender == RecoveredSender
           authority == RecoveredAuthority
           e == signedTx.items[10].v[1].v
           n1 == [accountNonce EXCEPT ![sender] = @ + 1]
           binds == /\ authority \in DOMAIN accountNonce
                    /\ FromBytes(e[1].v) \in {0, TheChainId}
                    /\ FromBytes(e[3].v) = n1[authority]
           code == IF binds THEN [delegatedCode EXCEPT ![authority] = e[2].v] ELSE delegatedCode
           to == AccountAt(signedTx.items[6].v)
           runs == code[to] = BATCH_CALL_DELEGATION_ADDRESS
           res == IF runs THEN execute(Storage, to, blockTimestamp, calls(script))
                  ELSE Ok(Storage, <<>>)
       IN /\ sender \in DOMAIN accountNonce
          /\ FromBytes(signedTx.items[2].v) = accountNonce[sender]
          /\ accountNonce' = IF binds THEN [n1 EXCEPT ![authority] = @ + 1] ELSE n1
          /\ delegatedCode' = code
          /\ balanceOf' = res.st.balanceOf
          /\ allowance' = res.st.allowance
          /\ authorizationState' = res.st.authorizationState
          /\ totalSupply' = res.st.totalSupply
          /\ receipt' = [senderNonce |-> accountNonce[sender],
                         authorityNonce |-> accountNonce[authority],
                         authorityNonceWhenProcessed |-> n1[authority],
                         bound |-> binds,
                         from |-> sender,
                         to |-> to,
                         executed |-> runs,
                         status |-> IF res.err = "OK" THEN 1 ELSE 0,
                         revert |-> res.err,
                         logs |-> res.events]
    /\ pc' = "mined"
    /\ UNCHANGED <<blockTimestamp, typedVars, script, nonceRead, authorizationData,
                   authorizationSignature, txData, txSignature, signedTx>>

\* Another transaction of one of the accounts is included meanwhile.
OtherTransaction ==
    /\ script \in Delegating
    /\ pc \in {"fetched", "authorized", "built", "signed", "checked", "sent", "waiting"}
    /\ \E a \in DOMAIN accountNonce :
          /\ accountNonce[a] < MaxNonce
          /\ accountNonce' = [accountNonce EXCEPT ![a] = @ + 1]
    /\ UNCHANGED <<tokenVars, typedVars, script, pc, delegatedCode, nonceRead, authorizationData,
                   authorizationSignature, txData, txSignature, signedTx, receipt>>

\* A later block, once a typed authorization is signed.
NextBlock ==
    /\ message # None
    /\ pc \in {"typed", "fetched", "authorized", "built", "signed", "sent", "waiting"}
    /\ \E t \in BlockTimes : t > blockTimestamp /\ blockTimestamp' = t
    /\ UNCHANGED <<balanceOf, allowance, authorizationState, totalSupply, scriptVars>>

\* getTransactionReceipt returns null: the loop sleeps and asks again
PollEmpty ==
    /\ pc = "sent"
    /\ pc' = "waiting"
    /\ UNCHANGED <<tokenVars, typedVars, script, accountNonce, delegatedCode, nonceRead,
                   authorizationData, authorizationSignature, txData, txSignature, signedTx,
                   receipt>>

Sleep ==
    /\ pc = "waiting"
    /\ pc' = "sent"
    /\ UNCHANGED <<tokenVars, typedVars, script, accountNonce, delegatedCode, nonceRead,
                   authorizationData, authorizationSignature, txData, txSignature, signedTx,
                   receipt>>

\* getTransactionReceipt returns the receipt: the loop ends
Poll ==
    /\ pc = "mined"
    /\ pc' = "done"
    /\ UNCHANGED <<tokenVars, typedVars, script, accountNonce, delegatedCode, nonceRead, authorizationData,
                   authorizationSignature, txData, txSignature, signedTx, receipt>>

\* Whether the script looks at receipt.status after the loop.
ChecksStatus(sc) == sc \in {Sponsored, SelfTransfer}

\* if (receipt.status === 0) throw; otherwise the success lines and exit 0
CheckStatus ==
    /\ pc = "done"
    /\ pc' = IF ChecksStatus(script) /\ receipt.status = 0 THEN "exit1" ELSE "exit0"
    /\ UNCHANGED <<tokenVars, typedVars, script, accountNonce, delegatedCode, nonceRead,
                   authorizationData, authorizationSignature, txData, txSignature, signedTx,
                   receipt>>

\* token.transferWithAuthorization(...) sent by the wallet and included
CallTransferWithAuthorization ==
    /\ script = EndToEnd
    /\ pc = "typed"
    /\ LET res == transferWithAuthorization(Storage, blockTimestamp, "wallet", Recipient,
                                            message.value, message.validAfter,
                                            message.validBefore, message.nonce, signature)
       IN /\ balanceOf' = res.st.balanceOf
          /\ allowance' = res.st.allowance
          /\ authorizationState' = res.st.authorizationState
          /\ totalSupply' = res.st.totalSupply
          /\ receipt' = [from |-> "wallet", status |-> IF res.err = "OK" THEN 1 ELSE 0,
                         revert |-> res.err, logs |-> res.events]
    /\ pc' = "called"
    /\ UNCHANGED <<blockTimestamp, typedVars, script, accountNonce, delegatedCode, nonceRead,
                   authorizationData, authorizationSignature, txData, txSignature, signedTx>>

\* tx.wait(): resolves with the receipt, throws when the call reverted
Wait ==
    /\ pc = "called"
    /\ pc' = IF receipt.status = 0 THEN "exit1" ELSE "exit0"
    /\ UNCHANGED <<tokenVars, typedVars, script, accountNonce, delegatedCode, nonceRead,
                   authorizationData, authorizationSignature, txData, txSignature, signedTx,
                   receipt>>

----------------------------------------------------------------------------
vars == <<tokenVars, scriptVars>>

\* The token, called by anyone in any order.
Init == TokenInit /\ ScriptsIdle
Next ==
    \/ Transfer
    \/ Approve
    \/ TransferFrom
    \/ TransferWithAuthorization
    \/ CancelAuthorization
    \/ Tick
Spec == Init /\ [][Next]_vars

\* One run of one of the scripts against the network.
InitScripts == ScriptsInit /\ ScriptsToken
NextScripts ==
    \/ SignTypedData
    \/ CallTransferWithAuthorization
    \/ Wait
    \/ NextBlock
    \/ CheckBalance
    \/ PollEmpty
    \/ Sleep
    \/ CheckStatus
    \/ FetchNonces
    \/ SignAuthorization
    \/ BuildTransaction
    \/ SignTransaction
    \/ SendRawTransaction
    \/ Mine
    \/ OtherTransaction
    \/ Poll
SpecScripts == InitScripts /\ [][NextScripts]_vars

\* main() keeps running once the transaction is sent: the steps of the
\* polling loop and the ones after it are taken when they stay possible. The
\* network owes nothing: it may never include the transaction.
SpecScriptsFair ==
    /\ SpecScripts
    /\ WF_vars(PollEmpty) /\ WF_vars(Sleep) /\ WF_vars(Poll) /\ WF_vars(CheckStatus)

----------------------------------------------------------------------------
(* Vocabulary of the properties *)

Keys == Address \X Nonces
KeyOfInput(i) == _authKey(i.msg.from, i.msg.nonce)

\* The window of i is open at the current block time (both ends excluded).
WindowOpen(i) == i.msg.validAfter < blockTimestamp /\ blockTimestamp < i.msg.validBefore

\* The signature of i recovers to the claimed authorizer.
TransferRecovers(i) == ecrecover(TransferDigest(i.msg), i.sig) = i.msg.from
CancelRecovers(i) == ecrecover(CancelDigest(i.authorizer, i.nonce), i.sig) = i.authorizer

\* The signature of i was made with the claimed authorizer's key over the
\* digest of exactly the submitted fields.
TransferSignedByAuthorizer(i) ==
    i.msg.from \in Holders /\ i.sig = Sign(i.msg.from, TransferDigest(i.msg))
CancelSignedByAuthorizer(i) ==
    i.authorizer \in Holders /\ i.sig = Sign(i.authorizer, CancelDigest(i.authorizer, i.nonce))

TimingErrors == {"TIME_NOT_YET", "TIME_EXPIRED"}

\* What transferWithAuthorization returns on storage st at the current time.
TWAOn(st, i) ==
    transferWithAuthorization(st, blockTimestamp, i.msg.from, i.msg.to, i.msg.value,
                              i.msg.validAfter, i.msg.validBefore, i.msg.nonce, i.sig)

\* balances after moving value from `from` to `to`
Moved(bal, from, to, value) ==
    [a \in Address |->
        IF from = to THEN bal[a]
        ELSE IF a = from THEN bal[a] - value
        ELSE IF a = to THEN bal[a] + value
        ELSE bal[a]]

----------------------------------------------------------------------------
\* C1 (as claimed): once the record of (authorizer, nonce) has left Unused,
\* every transferWithAuthorization call signed by the authorizer for that
\* pair fails with USED_OR_CANCELLED, whatever its to, value and window.
C1_ReplayAlwaysUsedOrCancelled ==
    EveryTransferInput(blockTimestamp, LAMBDA i :
        (authorizationState[KeyOfInput(i)] # "Unused" /\ TransferSignedByAuthorizer(i))
            => TWA(i).err = "USED_OR_CANCELLED")

\* C1 (amended): every record starts Unused; a successful
\* transferWithAuthorization finds the record of (from, nonce) Unused and
\* leaves it Used, and on the storage it leaves every call for the same pair
\* fails, whatever its to, value, window and signature; in every reachable
\* state a call for a pair whose record is Used or Canceled fails and changes
\* nothing, with USED_OR_CANCELLED when its window is open and its signature
\* recovers to the authorizer, and with the timing or signature condition
\* that is checked first otherwise.
C1_ReplayRejected ==
    /\ \A k \in Keys : authorizationState[k] = "Unused"
    /\ [](EveryTransferInput(blockTimestamp, LAMBDA i :
            LET r == TWA(i)
                k == KeyOfInput(i)
            IN /\ r.err = "OK" =>
                    /\ authorizationState[k] = "Unused"
                    /\ r.st.authorizationState[k] = "Used"
                    /\ EveryTransferInput(blockTimestamp, LAMBDA j :
                            KeyOfInput(j) = k => TWAOn(r.st, j).err # "OK")
               /\ authorizationState[k] # "Unused" =>
                    /\ r.err # "OK"
                    /\ r.st = Storage
                    /\ (WindowOpen(i) /\ TransferRecovers(i)) => r.err = "USED_OR_CANCELLED"
                    /\ ~WindowOpen(i) => r.err \in TimingErrors
                    /\ (WindowOpen(i) /\ ~TransferRecovers(i)) => r.err = "SIG"))

\* A Used record and a Canceled record, and a correctly signed replay in an
\* open window for each of them that is turned down as USED_OR_CANCELLED.
C1_Witness ==
    \E k1, k2 \in AuthKeys :
        /\ authorizationState[k1] = "Used"
        /\ authorizationState[k2] = "Canceled"
        /\ \A k \in {k1, k2} :
              AnyTransferInput(blockTimestamp, LAMBDA i :
                  /\ KeyOfInput(i) = k
                  /\ WindowOpen(i)
                  /\ TransferSignedByAuthorizer(i)
                  /\ TWA(i).err = "USED_OR_CANCELLED")

----------------------------------------------------------------------------
\* C2: Used and Canceled are terminal. In every step of the token (any of
\* transferWithAuthorization, cancelAuthorization, transfer, approve,
\* transferFrom, or a new block) a record that is Used stays Used and a
\* record that is Canceled stays Canceled: no record returns to Unused, none
\* goes from Used to Canceled or from Canceled to Used.
C2_TerminalStates ==
    [][\A k \in Keys :
          /\ authorizationState[k] = "Used" => authorizationState'[k] = "Used"
          /\ authorizationState[k] = "Canceled" => authorizationState'[k] = "Canceled"]_vars

\* A Used and a Canceled record in a state where cancelAuthorization and
\* transferWithAuthorization are called again for them with the authorizer's
\* own signature, after plain transfers and an approval have happened.
C2_Witness ==
    /\ authorizationState[<<"A", "n1">>] = "Used"
    /\ authorizationState[<<"A", "n2">>] = "Canceled"
    /\ balanceOf["B"] > 0
    /\ allowance[Deployer]["B"] > 0
    /\ AnyCancelInput(LAMBDA i :
          /\ i.authorizer = "A" /\ i.nonce = "n1"
          /\ CancelSignedByAuthorizer(i)
          /\ Cancel(i).err # "OK")
    /\ AnyTransferInput(blockTimestamp, LAMBDA i :
          /\ KeyOfInput(i) = <<"A", "n2">>
          /\ TransferSignedByAuthorizer(i) /\ WindowOpen(i)
          /\ TWA(i).err # "OK")

----------------------------------------------------------------------------
\* C3: transferWithAuthorization is all-or-nothing. For every input in every
\* reachable state: a call that fails (timing, signature, record not Unused,
\* or BALANCE after the record was written) returns the storage it was given
\* and emits nothing; and the record of (from, nonce) goes from Unused to
\* Used exactly when the call emits Transfer(from, to, value) and the
\* balances are those before the call with value moved from `from` to `to`,
\* which is exactly when the call succeeds; nothing else changes.
C3_AllOrNothing ==
    EveryTransferInput(blockTimestamp, LAMBDA i :
        LET r == TWA(i)
            k == KeyOfInput(i)
            m == i.msg
            becomesUsed == authorizationState[k] = "Unused" /\ r.st.authorizationState[k] = "Used"
            transferred == \E n \in 1 .. Len(r.events) :
                              r.events[n] = <<"Transfer", m.from, m.to, m.value>>
        IN /\ r.err # "OK" => (r.st = Storage /\ r.events = <<>>)
           /\ becomesUsed <=> transferred
           /\ becomesUsed <=> r.err = "OK"
           /\ r.err = "OK" =>
                /\ balanceOf[m.from] >= m.value
                /\ r.st.balanceOf = Moved(balanceOf, m.from, m.to, m.value)
                /\ r.st.authorizationState = [authorizationState EXCEPT ![k] = "Used"]
                /\ r.st.allowance = allowance
                /\ r.st.totalSupply = totalSupply)

\* After a successful authorized transfer (a record is Used, B holds value),
\* a call that passes timing, signature and record state and then fails on
\* the balance of `from`, and a call that moves a positive amount.
C3_Witness ==
    /\ \E k \in AuthKeys : authorizationState[k] = "Used"
    /\ AnyTransferInput(blockTimestamp, LAMBDA i :
          /\ WindowOpen(i) /\ TransferSignedByAuthorizer(i)
          /\ authorizationState[KeyOfInput(i)] = "Unused"
          /\ TWA(i).err = "BALANCE")
    /\ AnyTransferInput(blockTimestamp, LAMBDA i :
          /\ i.msg.value > 0 /\ i.msg.from # i.msg.to /\ TWA(i).err = "OK")

----------------------------------------------------------------------------
\* C4: the validity window is open at both ends. For every input in every
\* reachable state, valid signature and Unused record included: with
\* validAfter >= block.timestamp the call fails with TIME_NOT_YET; with
\* validBefore <= block.timestamp it fails with a timing condition, which is
\* TIME_EXPIRED unless validAfter >= block.timestamp as well; and a call
\* that succeeds has validAfter < block.timestamp < validBefore.
C4_OpenWindow ==
    EveryTransferInput(blockTimestamp, LAMBDA i :
        LET r == TWA(i)
            m == i.msg
        IN /\ m.validAfter >= blockTimestamp => r.err = "TIME_NOT_YET"
           /\ m.validBefore <= blockTimestamp => r.err \in TimingErrors
           /\ (m.validBefore <= blockTimestamp /\ m.validAfter < blockTimestamp)
                => r.err = "TIME_EXPIRED"
           /\ r.err = "OK" => (m.validAfter < blockTimestamp /\ blockTimestamp < m.validBefore))

\* Correctly signed calls on an Unused record with a sufficient balance: one
\* with validBefore = block.timestamp, one with validAfter = block.timestamp
\* (both turned down) and one with the block time inside the window (passes).
C4_Witness ==
    LET good(i) == /\ TransferSignedByAuthorizer(i)
                   /\ authorizationState[KeyOfInput(i)] = "Unused"
                   /\ balanceOf[i.msg.from] >= i.msg.value
                   /\ i.msg.value > 0
    IN /\ AnyTransferInput(blockTimestamp, LAMBDA i :
            /\ good(i) /\ i.msg.validBefore = blockTimestamp /\ i.msg.validAfter < blockTimestamp
            /\ TWA(i).err = "TIME_EXPIRED")
       /\ AnyTransferInput(blockTimestamp, LAMBDA i :
            /\ good(i) /\ i.msg.validAfter = blockTimestamp /\ i.msg.validBefore > blockTimestamp
            /\ TWA(i).err = "TIME_NOT_YET")
       /\ AnyTransferInput(blockTimestamp, LAMBDA i :
            /\ good(i) /\ WindowOpen(i) /\ TWA(i).err = "OK")
       /\ blockTimestamp > 1

----------------------------------------------------------------------------
\* The condition transferWithAuthorization reports for the first of its
\* preconditions that input i violates, in the order timing, signature,
\* record state; "none" when i violates none of the three.
FirstViolated(i) ==
    IF ~(i.msg.validAfter < blockTimestamp) THEN "TIME_NOT_YET"
    ELSE IF ~(blockTimestamp < i.msg.validBefore) THEN "TIME_EXPIRED"
    ELSE IF ~TransferRecovers(i) THEN "SIG"
    ELSE IF authorizationState[KeyOfInput(i)] # "Unused" THEN "USED_OR_CANCELLED"
    ELSE "none"

\* The preconditions of cancelAuthorization, in its order: signature, record.
CancelOrder(i, consumed) ==
    LET err == Cancel(i).err
        recovers == CancelRecovers(i)
        unused == authorizationState[_authKey(i.authorizer, i.nonce)] = "Unused"
    IN /\ ~recovers => err = "SIG"
       /\ (recovers /\ ~unused) => err = consumed
       /\ (recovers /\ unused) => err = "OK"

TransferOrder(i) ==
    LET err == TWA(i).err
        violated == FirstViolated(i)
    IN /\ violated # "none" => err = violated
       /\ violated = "none" => err \in {"OK", "BALANCE"}

\* C5 (as claimed): transferWithAuthorization reports the first violated
\* precondition in the order timing, signature, record state, each under its
\* own name, and cancelAuthorization reports an already consumed record
\* under the same name, USED_OR_CANCELLED.
C5_SameNameInCancel ==
    /\ EveryTransferInput(blockTimestamp, LAMBDA i : TransferOrder(i))
    /\ EveryCancelInput(LAMBDA i : CancelOrder(i, "USED_OR_CANCELLED"))

\* C5 (amended): transferWithAuthorization reports the first violated
\* precondition in the order timing (TIME_NOT_YET, then TIME_EXPIRED),
\* signature (SIG), record state (USED_OR_CANCELLED), for every combination
\* of violated preconditions, and the names of the three kinds differ;
\* cancelAuthorization checks the signature (SIG) and then the record, and
\* reports an already consumed record as STATE, not as USED_OR_CANCELLED.
C5_NamedConditions ==
    /\ EveryTransferInput(blockTimestamp, LAMBDA i : TransferOrder(i))
    /\ EveryCancelInput(LAMBDA i : CancelOrder(i, "STATE"))
    /\ TimingErrors \cap {"SIG", "USED_OR_CANCELLED", "STATE", "BALANCE", "OK"} = {}
    /\ Cardinality({"SIG", "USED_OR_CANCELLED", "BALANCE", "OK"}) = 4

\* A consumed record for which some call violates all three preconditions
\* (reported as timing), some violates signature and record (reported as
\* SIG), some only the record (USED_OR_CANCELLED), and whose cancellation
\* with the authorizer's own signature is turned down.
C5_Witness ==
    \E k \in AuthKeys :
        /\ authorizationState[k] = "Used"
        /\ AnyTransferInput(blockTimestamp, LAMBDA i :
              /\ KeyOfInput(i) = k /\ ~WindowOpen(i) /\ ~TransferRecovers(i)
              /\ TWA(i).err \in TimingErrors)
        /\ AnyTransferInput(blockTimestamp, LAMBDA i :
              /\ KeyOfInput(i) = k /\ WindowOpen(i) /\ ~TransferRecovers(i)
              /\ TWA(i).err = "SIG")
        /\ AnyTransferInput(blockTimestamp, LAMBDA i :
              /\ KeyOfInput(i) = k /\ WindowOpen(i) /\ TransferRecovers(i)
              /\ TWA(i).err = "USED_OR_CANCELLED")
        /\ AnyCancelInput(LAMBDA i :
              /\ _authKey(i.authorizer, i.nonce) = k /\ CancelSignedByAuthorizer(i)
              /\ Cancel(i).err = "STATE")

----------------------------------------------------------------------------
\* C6: for every claimed authorizer, address(0) included, a call of
\* transferWithAuthorization or cancelAuthorization succeeds (and so writes a
\* record or a balance) only when its signature was made with the claimed
\* authorizer's key over the typed digest of exactly the submitted fields; a
\* signature that recovers to another address or to none fails with SIG.
C6_OnlyAuthorizerSignature ==
    /\ EveryTransferInput(blockTimestamp, LAMBDA i :
          IF TransferSignedByAuthorizer(i) THEN TWA(i).err # "SIG"
          ELSE (TWA(i).err # "OK" /\ (WindowOpen(i) => TWA(i).err = "SIG")))
    /\ EveryCancelInput(LAMBDA i :
          IF CancelSignedByAuthorizer(i) THEN Cancel(i).err # "SIG"
          ELSE Cancel(i).err = "SIG")

----------------------------------------------------------------------------
\* C7: cancelAuthorization has no time window. In every reachable state, at
\* every block time: a cancellation signed by the authorizer for an Unused
\* record succeeds, leaves that record Canceled and changes no balance, no
\* allowance, no other record and not the supply, also for a nonce whose
\* transfer authorizations are not yet valid or expired at that block time;
\* a cancellation for a record that is Used or Canceled fails and changes
\* nothing.
C7_CancelAnyTime ==
    EveryCancelInput(LAMBDA i :
        LET r == Cancel(i)
            k == _authKey(i.authorizer, i.nonce)
        IN /\ (CancelSignedByAuthorizer(i) /\ authorizationState[k] = "Unused") =>
                /\ r.err = "OK"
                /\ r.st = [Storage EXCEPT !.authorizationState = [@ EXCEPT ![k] = "Canceled"]]
           /\ authorizationState[k] # "Unused" => (r.err # "OK" /\ r.st = Storage)
           /\ r.err # "OK" => r.st = Storage)

\* At the last block time of the model: a cancellation that succeeds for a
\* nonce whose correctly signed transfer authorizations are expired or not
\* yet valid, beside a record that was consumed earlier, whose cancellation
\* with the authorizer's signature fails.
C7_Witness ==
    /\ blockTimestamp = MaxTime
    /\ authorizationState[<<"A", "n1">>] = "Unused"
    /\ authorizationState[<<"A", "n2">>] = "Used"
    /\ AnyCancelInput(LAMBDA i :
          /\ _authKey(i.authorizer, i.nonce) = <<"A", "n1">>
          /\ CancelSignedByAuthorizer(i) /\ Cancel(i).err = "OK")
    /\ AnyTransferInput(blockTimestamp, LAMBDA i :
          /\ KeyOfInput(i) = <<"A", "n1">> /\ TransferSignedByAuthorizer(i)
          /\ TWA(i).err = "TIME_EXPIRED")
    /\ AnyTransferInput(blockTimestamp, LAMBDA i :
          /\ KeyOfInput(i) = <<"A", "n1">> /\ TransferSignedByAuthorizer(i)
          /\ TWA(i).err = "TIME_NOT_YET")
    /\ AnyCancelInput(LAMBDA i :
          /\ i.nonce = "n2" /\ CancelSignedByAuthorizer(i) /\ Cancel(i).err = "STATE")

----------------------------------------------------------------------------
(* Properties of the scripts *)

AuthorizationSigned ==
    script \in Delegating /\ pc \notin {"start", "typed", "fetched"}
TransactionSigned ==
    script \in Delegating /\ pc \notin {"start", "typed", "fetched", "authorized", "built"}
Transmitted ==
    /\ script \in Delegating
    /\ \/ pc \in {"sent", "waiting", "rejected", "mined", "done"}
       \/ pc \in {"exit0", "exit1"} /\ receipt # None
Included == script \in Delegating /\ receipt # None
SelfSponsored == script \in {SelfTransfer, SelfAuthorized}

\* The nonce the authorizer signed, read back from the authorization.
BoundNonce == FromBytes(authorizationData.nonce)

----------------------------------------------------------------------------
\* An integer item whose value is zero is the empty byte string, which RLP
\* encodes as 0x80, and not the byte 0x00.
ZeroIsEmpty(item) == FromBytes(item.v) = 0 => (item.v = <<>> /\ encodeRlp(item) = <<128>>)

\* C9: in the signed payloads and in the transmitted transaction of every
\* script, every numeric field (chain id, sender nonce, max priority fee, max
\* fee, gas limit, value, yParity, and in the authorization chain id, nonce
\* and yParity) whose value is zero is the empty byte string, never 0x00.
C9_ZeroFieldsAreEmpty ==
    /\ AuthorizationSigned =>
          \A f \in {"chainId", "nonce", "yParity"} : ZeroIsEmpty(Bytes(authorizationData[f]))
    /\ (AuthorizationSigned /\ pc # "authorized") =>
          /\ \A n \in {1, 2, 3, 4, 5, 7} : ZeroIsEmpty(txData[n])
          /\ \A n \in {1, 3, 4} : ZeroIsEmpty(txData[10].v[1].v[n])
    /\ TransactionSigned =>
          /\ \A n \in {1, 2, 3, 4, 5, 7, 11} : ZeroIsEmpty(signedTx.items[n])
          /\ \A n \in {1, 3, 4} : ZeroIsEmpty(signedTx.items[10].v[1].v[n])

----------------------------------------------------------------------------
\* C10: what every script transmits is 0x04 followed by the RLP of thirteen
\* items in the order chainId, nonce, maxPriorityFee, maxFee, gasLimit, to,
\* value, data, accessList, authorizationList, yParity, r, s; the first ten
\* are the list whose 0x04-prefixed RLP the paying account signed, the last
\* three are that signature; the authorization list has one entry of six
\* items chainId, address, nonce, yParity, r, s, whose first three are the
\* list whose 0x05-prefixed RLP the authorizer signed and whose last three
\* are that signature.
C10_SentIsWhatWasSigned ==
    Transmitted =>
        LET items == signedTx.items
            entry == items[10].v[1].v
        IN /\ signedTx.raw = <<4>> \o encodeRlp(List(items))
           /\ Len(items) = 13
           /\ items[1] = Bytes(toBeHex(TheChainId))
           /\ items[2] = Bytes(toBeHex(nonceRead.sender))
           /\ \E feeData \in FeeData :
                 /\ FromBytes(items[3].v) = feeData.maxPriorityFeePerGas
                 /\ FromBytes(items[4].v) = feeData.maxFeePerGas
           /\ items[5] = Bytes(gasLimit(script))
           /\ items[6] = Bytes(AddressBytes(Authorizer(script)))
           /\ items[7] = Bytes(<<>>)
           /\ items[8] = Bytes(calldata(script))
           /\ items[9] = List(<<>>)
           /\ items[10].t = "list" /\ Len(items[10].v) = 1
           /\ items[11] = Bytes(yParityHex(txSignature))
           /\ items[12] = Bytes(sigR(txSignature))
           /\ items[13] = Bytes(sigS(txSignature))
           /\ txSignature.signer = Sender(script)
           /\ txSignature.digest = keccak256(<<4>> \o encodeRlp(List(SubSeq(items, 1, 10))))
           /\ items[10].v[1].t = "list" /\ Len(entry) = 6
           /\ entry[1] = Bytes(toBeHex(TheChainId))
           /\ entry[2] = Bytes(BATCH_CALL_DELEGATION_ADDRESS)
           /\ FromBytes(entry[3].v) = AuthorizationNonce(script, nonceRead)
           /\ entry[4] = Bytes(yParityHex(authorizationSignature))
           /\ entry[5] = Bytes(sigR(authorizationSignature))
           /\ entry[6] = Bytes(sigS(authorizationSignature))
           /\ authorizationSignature.signer = Authorizer(script)
           /\ authorizationSignature.digest =
                 keccak256(<<5>> \o encodeRlp(List(SubSeq(entry, 1, 3))))

\* The sponsored script's transaction, sent, included and bound: thirteen
\* items after the type byte, signed by the gas payer, its entry by the
\* token holder.
C10_Witness ==
    /\ script = Sponsored
    /\ pc = "exit0"
    /\ receipt.bound
    /\ signedTx.raw[1] = 4
    /\ Len(signedTx.items) = 13
    /\ txSignature.signer = "gasPayer"
    /\ authorizationSignature.signer = "tokenHolder"

----------------------------------------------------------------------------
\* The records that differ between two storages.
ChangedRecords(before, after) ==
    {k \in Keys : after.authorizationState[k] # before.authorizationState[k]}

\* C16: in every reachable state and for every input, a successful
\* transferWithAuthorization or cancelAuthorization changes the record of
\* exactly one key, the pair (authorizer, nonce) it was called with, and
\* leaves every other record as it was; cancelAuthorization changes no
\* balance, no allowance and not the supply; transfer, approve and
\* transferFrom, successful or not, change no record.
C16_OneRecordPerCall ==
    /\ EveryTransferInput(blockTimestamp, LAMBDA i :
          LET r == TWA(i)
          IN r.err = "OK" =>
                ChangedRecords(Storage, r.st) = {<<i.msg.from, i.msg.nonce>>})
    /\ EveryCancelInput(LAMBDA i :
          LET r == Cancel(i)
          IN r.err = "OK" =>
                /\ ChangedRecords(Storage, r.st) = {<<i.authorizer, i.nonce>>}
                /\ r.st.balanceOf = balanceOf
                /\ r.st.allowance = allowance
                /\ r.st.totalSupply = totalSupply)
    /\ \A sender \in Holders, to \in Address, value \in Values :
          /\ transfer(Storage, sender, to, value).st.authorizationState = authorizationState
          /\ \A from \in Holders :
                transferFrom(Storage, sender, from, to, value).st.authorizationState
                    = authorizationState
    /\ \A sender \in Holders, spender \in Holders, value \in ApproveValues :
          approve(Storage, sender, spender, value).st.authorizationState = authorizationState

\* One record of A consumed by a transfer (B was paid) while the other is
\* still Unused, with a cancellation and an authorized transfer that succeed
\* for the Unused one, and plain transfers and an approved transferFrom that
\* succeed beside them.
C16_Witness ==
    /\ authorizationState[<<"A", "n1">>] = "Used"
    /\ authorizationState[<<"A", "n2">>] = "Unused"
    /\ balanceOf["B"] > 0 /\ balanceOf["A"] > 0
    /\ allowance["A"]["B"] > 0
    /\ AnyCancelInput(LAMBDA i : i.authorizer = "A" /\ i.nonce = "n2" /\ Cancel(i).err = "OK")
    /\ AnyTransferInput(blockTimestamp, LAMBDA i :
          /\ i.msg.from = "A" /\ i.msg.nonce = "n2" /\ i.msg.value > 0 /\ TWA(i).err = "OK")
    /\ transfer(Storage, "B", "A", 1).err = "OK"
    /\ transferFrom(Storage, "B", "A", "B", 1).err = "OK"

----------------------------------------------------------------------------
RECURSIVE SumOver(_, _)
SumOver(bal, accounts) ==
    IF accounts = {} THEN 0
    ELSE LET a == CHOOSE x \in accounts : TRUE
         IN bal[a] + SumOver(bal, accounts \ {a})

\* The sum of balanceOf over all addresses.
SumOfBalances(bal) == SumOver(bal, DOMAIN bal)

\* The subtraction and the addition of _transfer(from, to, value) on the
\* balances bal, done in unbounded integers, stay within uint256.
NoWrap(bal, from, to, value) ==
    /\ bal[from] - value >= 0
    /\ (IF from = to THEN bal[to] - value ELSE bal[to]) + value <= UINT_MAX

\* What a successful call that moves value must leave: the balances with
\* value moved, computed without wrap-around, and the same supply.
Conserves(r, from, to, value) ==
    IF r.err = "OK"
    THEN /\ NoWrap(balanceOf, from, to, value)
         /\ r.st.balanceOf = Moved(balanceOf, from, to, value)
         /\ SumOfBalances(r.st.balanceOf) = InitialSupply
         /\ r.st.totalSupply = InitialSupply
    ELSE r.st.balanceOf = balanceOf /\ r.st.totalSupply = totalSupply

\* C17: after the constructor and any sequence of transfer, transferFrom,
\* approve, transferWithAuthorization and cancelAuthorization calls, failed
\* ones and calls with from = to included, the sum of balanceOf over all
\* addresses equals totalSupply, which equals the initial supply; and every
\* call made in such a state, for any amount up to the largest uint256,
\* either fails and leaves the balances as they were or moves the amount
\* without the unchecked subtraction or addition wrapping around.
C17_SupplyConserved ==
    /\ SumOfBalances(balanceOf) = totalSupply
    /\ totalSupply = InitialSupply
    /\ \A b \in Address : balanceOf[b] \in 0 .. InitialSupply
    /\ \A sender \in Holders, to \in Address, value \in Values \cup {UINT_MAX} :
          /\ Conserves(transfer(Storage, sender, to, value), sender, to, value)
          /\ \A from \in Holders :
                Conserves(transferFrom(Storage, sender, from, to, value), from, to, value)
    /\ EveryTransferInput(blockTimestamp, LAMBDA i :
          Conserves(TWA(i), i.msg.from, i.msg.to, i.msg.value))
    /\ EveryCancelInput(LAMBDA i : Cancel(i).st.balanceOf = balanceOf)

\* The supply spread over A and B by earlier calls, an unlimited allowance
\* in place, a transfer to oneself and an authorized transfer that
\* succeed and a transfer of the largest uint256 that fails.
C17_Witness ==
    /\ balanceOf["A"] > 0 /\ balanceOf["B"] > 0
    /\ allowance["A"]["B"] = UINT_MAX
    /\ transfer(Storage, "B", "B", balanceOf["B"]).err = "OK"
    /\ transferFrom(Storage, "B", "A", "A", balanceOf["A"]).err = "OK"
    /\ transfer(Storage, "A", "B", UINT_MAX).err = "BALANCE"
    /\ AnyTransferInput(blockTimestamp, LAMBDA i :
          i.msg.value > 0 /\ i.msg.from # i.msg.to /\ TWA(i).err = "OK")

----------------------------------------------------------------------------
\* The transfer authorizations signed by their authorizer whose window is
\* open at the current block time, one for every authorizer holding a key,
\* nonce, recipient and amount.
ValidTransfers ==
    {[msg |-> m, sig |-> Sign(m.from, TransferDigest(m))] :
        m \in [from : Holders, nonce : Nonces, to : Holders, value : Values,
               validAfter : {blockTimestamp - 1}, validBefore : {blockTimestamp + 1}]}

\* Two calls one after the other in the same block: the outcome of each and
\* the storage they leave.
InOrder(i, j) ==
    LET r1 == TWAOn(Storage, i)
        r2 == TWAOn(r1.st, j)
    IN [first |-> r1.err, second |-> r2.err, st |-> r2.st]

DifferentKeys(i, j) == <<i.msg.from, i.msg.nonce>> # <<j.msg.from, j.msg.nonce>>

\* A fixed order of the keys, to take each pair of authorizations with
\* different keys once: what is stated of (i, j) in both orders is stated of
\* (j, i) as well.
KeyRank(i) ==
    (IF i.msg.from = "A" THEN 0 ELSE 2) + (IF i.msg.nonce = "n1" THEN 0 ELSE 1)

\* What the two authorizations together draw on the balance of account a.
Drawn(i, j, a) ==
    (IF i.msg.from = a THEN i.msg.value ELSE 0) + (IF j.msg.from = a THEN j.msg.value ELSE 0)

\* C15 (as claimed): for any two validly signed, in-window transfer
\* authorizations with different (authorizer, nonce) keys, executing them in
\* either order gives each call the same outcome and leaves the same records
\* and balances, also when both draw on the same authorizer's balance.
C15_AnyOrderSameResult ==
    \A i \in ValidTransfers, j \in ValidTransfers :
        DifferentKeys(i, j) =>
            LET ij == InOrder(i, j)
                ji == InOrder(j, i)
            IN /\ ij.first = ji.second
               /\ ij.second = ji.first
               /\ ij.st = ji.st

\* C15 (amended): for any two validly signed, in-window transfer
\* authorizations with different (authorizer, nonce) keys, the checks of the
\* record do not depend on the order: a call is turned down as
\* USED_OR_CANCELLED exactly when its own record was not Unused before
\* either call, in both orders, and otherwise it succeeds or fails with
\* BALANCE; BALANCE is the only outcome the order can change; when each
\* call has the same outcome in both orders the final records and balances
\* are the same; and when every authorizer's balance covers what the two
\* authorizations together draw on it, both orders give the same outcome for
\* each call and the same final records and balances.
C15_OrderMattersOnlyForBalance ==
    \A i \in ValidTransfers, j \in ValidTransfers :
        (DifferentKeys(i, j) /\ KeyRank(i) < KeyRank(j)) =>
            LET ij == InOrder(i, j)
                ji == InOrder(j, i)
                iConsumed == authorizationState[<<i.msg.from, i.msg.nonce>>] # "Unused"
                jConsumed == authorizationState[<<j.msg.from, j.msg.nonce>>] # "Unused"
                same == ij.first = ji.second /\ ij.second = ji.first
            IN /\ {ij.first, ij.second, ji.first, ji.second}
                     \subseteq {"OK", "BALANCE", "USED_OR_CANCELLED"}
               /\ (ij.first = "USED_OR_CANCELLED") <=> iConsumed
               /\ (ji.second = "USED_OR_CANCELLED") <=> iConsumed
               /\ (ij.second = "USED_OR_CANCELLED") <=> jConsumed
               /\ (ji.first = "USED_OR_CANCELLED") <=> jConsumed
               /\ ij.first # ji.second => "BALANCE" \in {ij.first, ji.second}
               /\ ij.second # ji.first => "BALANCE" \in {ij.second, ji.first}
               /\ same => ij.st = ji.st
               /\ (\A a \in Holders : balanceOf[a] >= Drawn(i, j, a)) => (same /\ ij.st = ji.st)

\* A and B both hold tokens after earlier calls and a record is Used: one
\* pair of authorizations of the same authorizer whose second call fails
\* with BALANCE in either order, so that each call's outcome depends on the
\* order, and one pair (A pays B, B pays A) that succeeds in both orders.
C15_Witness ==
    /\ balanceOf["A"] > 0 /\ balanceOf["B"] > 0
    /\ \E k \in Keys : authorizationState[k] = "Used"
    /\ \E i \in ValidTransfers, j \in ValidTransfers :
          /\ DifferentKeys(i, j)
          /\ i.msg.from = j.msg.from
          /\ InOrder(i, j).first = "OK" /\ InOrder(i, j).second = "BALANCE"
          /\ InOrder(j, i).first = "OK" /\ InOrder(j, i).second = "BALANCE"
    /\ \E i \in ValidTransfers, j \in ValidTransfers :
          /\ i.msg.from = "A" /\ j.msg.from = "B" /\ i.msg.value > 0 /\ j.msg.value > 0
          /\ InOrder(i, j).first = "OK" /\ InOrder(i, j).second = "OK"
          /\ InOrder(j, i).first = "OK" /\ InOrder(j, i).second = "OK"
          /\ InOrder(i, j).st = InOrder(j, i).st

----------------------------------------------------------------------------
\* Batches of one or two ERC-20 transfers, among them transfer 10 to X then
\* transfer 5 to Y.
BatchAmounts == {5, 10}
Batches ==
    LET one == {[fn |-> "transfer", to |-> r, value |-> v] : r \in {"X", "Y"}, v \in BatchAmounts}
    IN {<<c>> : c \in one} \cup {<<c, d>> : c \in one, d \in one}

\* What a batch sends in all, and what it sends to account a.
RECURSIVE BatchTotal(_)
BatchTotal(batch) ==
    IF batch = <<>> THEN 0 ELSE Head(batch).value + BatchTotal(Tail(batch))

RECURSIVE BatchTo(_, _)
BatchTo(batch, a) ==
    IF batch = <<>> THEN 0
    ELSE (IF Head(batch).to = a THEN Head(batch).value ELSE 0) + BatchTo(Tail(batch), a)

\* C11: in the sponsored script the included transaction was signed by the
\* gas payer with the gas payer's nonce, its `to` is the token holder and its
\* authorization was signed by the token holder; when the authorization
\* binds, the batch runs as the token holder: every Transfer it logs is from
\* the token holder, the token holder's balance is down by the amount sent,
\* the recipient's is up by it and the gas payer's token balance is as
\* before; when the transaction reverts or the authorization does not bind no
\* balance changes. And every batch of one or two transfers executed as the
\* token holder on the balances reached either fails as a whole and changes
\* nothing, or takes the sum of its amounts from the token holder (15 for
\* transfers of 10 and 5), adds to each recipient what the batch sends it and
\* leaves the gas payer's balance unchanged.
C11_BatchRunsAsTokenHolder ==
    script = Sponsored =>
        /\ TransactionSigned =>
              /\ txSignature.signer = "gasPayer"
              /\ FromBytes(signedTx.items[2].v) = nonceRead.sender
              /\ signedTx.items[6] = Bytes(AddressBytes("tokenHolder"))
              /\ authorizationSignature.signer = "tokenHolder"
        /\ Included =>
              /\ receipt.from = "gasPayer" /\ receipt.to = "tokenHolder"
              /\ receipt.executed <=> receipt.bound
              /\ (receipt.executed /\ receipt.status = 1) =>
                    /\ receipt.logs = <<<<"Transfer", "tokenHolder", Recipient, Amount(Sponsored)>>>>
                    /\ balanceOf["tokenHolder"] = totalSupply - Amount(Sponsored)
                    /\ balanceOf[Recipient] = Amount(Sponsored)
              /\ ~(receipt.executed /\ receipt.status = 1) =>
                    /\ receipt.logs = <<>>
                    /\ balanceOf["tokenHolder"] = totalSupply
                    /\ balanceOf[Recipient] = 0
        /\ balanceOf["gasPayer"] = 0
        /\ \A batch \in Batches :
              LET r == execute(Storage, "tokenHolder", blockTimestamp, batch)
              IN /\ r.err = "OK" <=> balanceOf["tokenHolder"] >= BatchTotal(batch)
                 /\ r.err = "OK" =>
                       /\ r.st.balanceOf["tokenHolder"] = balanceOf["tokenHolder"] - BatchTotal(batch)
                       /\ \A a \in ScriptAddresses \ {"tokenHolder"} :
                             r.st.balanceOf[a] = balanceOf[a] + BatchTo(batch, a)
                       /\ r.st.balanceOf["gasPayer"] = balanceOf["gasPayer"]
                       /\ Len(r.events) = Len(batch)
                       /\ \A n \in 1 .. Len(batch) :
                             r.events[n] = <<"Transfer", "tokenHolder", batch[n].to, batch[n].value>>
                 /\ r.err # "OK" => (r.st = Storage /\ r.events = <<>>)

\* The sponsored transaction included with its authorization bound: the
\* token holder paid the recipient, the gas payer holds no token; on these
\* balances the batch (10 to X, 5 to Y) run as the token holder takes 15.
C11_Witness ==
    /\ script = Sponsored
    /\ pc = "exit0"
    /\ receipt.executed /\ receipt.status = 1
    /\ balanceOf["tokenHolder"] = 99 /\ balanceOf[Recipient] = 1 /\ balanceOf["gasPayer"] = 0
    /\ LET batch == <<[fn |-> "transfer", to |-> "X", value |-> 10],
                      [fn |-> "transfer", to |-> "Y", value |-> 5]>>
           r == execute(Storage, "tokenHolder", blockTimestamp, batch)
       IN /\ batch \in Batches
          /\ r.err = "OK"
          /\ r.st.balanceOf["tokenHolder"] = 84
          /\ r.st.balanceOf["Y"] = 5

----------------------------------------------------------------------------
\* C12: end to end. The script signs value 25 with validAfter = now - 60,
\* validBefore = now + 3600 and a nonce whose record is Unused, and calls
\* transferWithAuthorization. With the wallet holding 100, the recipient 0
\* and the call included at a block time inside the window (at now, or
\* later but before now + 3600), the call succeeds, the wallet holds 75, the
\* recipient 25, the record is Used and the script ends without error; and
\* the identical authorization submitted again, in that block or a later
\* one, fails and leaves 75 and 25 (as USED_OR_CANCELLED while the window is
\* open).
C12_EndToEnd ==
    (script = EndToEnd /\ pc \in {"called", "exit0", "exit1"}) =>
        /\ message.value = 25
        /\ message.validAfter = StartTime - 60
        /\ message.validBefore = StartTime + 3600
        /\ signature = Sign("wallet", TransferDigest(message))
        /\ (totalSupply = 100 /\ blockTimestamp < message.validBefore) =>
              /\ receipt.status = 1
              /\ pc # "exit1"
              /\ balanceOf["wallet"] = 75
              /\ balanceOf[Recipient] = 25
              /\ authorizationState[<<"wallet", message.nonce>>] = "Used"
              /\ \A t \in BlockTimes :
                    t >= blockTimestamp =>
                        LET replay == transferWithAuthorization(
                                          Storage, t, message.from, message.to, message.value,
                                          message.validAfter, message.validBefore, message.nonce,
                                          signature)
                        IN /\ replay.err # "OK"
                           /\ t < message.validBefore => replay.err = "USED_OR_CANCELLED"
                           /\ replay.st.balanceOf["wallet"] = 75
                           /\ replay.st.balanceOf[Recipient] = 25
                           /\ replay.st = Storage

\* The script ended without error after its call was included at now: 75
\* and 25, the record Used.
C12_Witness ==
    /\ script = EndToEnd
    /\ pc = "exit0"
    /\ blockTimestamp = StartTime
    /\ totalSupply = 100
    /\ receipt.status = 1
    /\ balanceOf["wallet"] = 75 /\ balanceOf[Recipient] = 25
    /\ authorizationState[<<"wallet", message.nonce>>] = "Used"

----------------------------------------------------------------------------
\* C13: in every script that submits a transaction, a transaction that was
\* included but reverted (receipt status 0) is never followed by the success
\* lines and exit code 0.
C13_RevertedNeverSuccess ==
    (receipt # None /\ receipt.status = 0) => pc # "exit0"

----------------------------------------------------------------------------
\* C14: receipt polling has a timeout. Once eth_sendRawTransaction has
\* returned a hash, the script eventually leaves its polling loop and
\* terminates, also when the network never returns a receipt for the hash.
C14_PollingTerminates ==
    (pc = "sent") ~> (pc \in {"exit0", "exit1"})

====
